---- MODULE Spec2Model ----
(***************************************************************************)
(* Model of the ngcc decorator-metadata recovery core:                     *)
(*   - Esm2015PackageParser.parseFile        (parser/esm2015_parser.ts)    *)
(*   - Esm5ReflectionHost.getClassSymbol,                                  *)
(*     getConstructorParameterDeclarations, getConstructorDecorators and   *)
(*     the helpers getIifeBody, getReturnIdentifier, getReturnStatement    *)
(*     (host/esm5_host.ts)                                                 *)
(* All of these are synchronous functions of their arguments and of an     *)
(* immutable syntax-tree / symbol-table snapshot.  A behaviour is one      *)
(* invocation: Init draws the operation and its argument, the operation's  *)
(* action applies it and records what it returned or that it threw.        *)
(***************************************************************************)
EXTENDS Integers, Sequences, FiniteSets

VARIABLES call, out
vars == <<call, out>>

\* Bounds of the explored inputs.
MaxExports == 3
MaxStatements == 3
MaxElements == 3
MaxParameters == 2

\* undefined / null
None == [kind |-> "None"]

SeqsUpTo(S, n) == UNION {[1..k -> S] : k \in 0..n}

(***************************************************************************)
(* The symbol-table snapshot seen by parseFile.                            *)
(***************************************************************************)

\* An identifier node of the syntax tree.
Identifier(text) == [kind |-> "Identifier", text |-> text]

\* What the reflection host hands back for a declaration: an array of decorators.
DecoratorArray(elements) == [kind |-> "Array", elements |-> elements]

\* Class declarations: name identifier (None for an anonymous class), owning
\* source file, and what the reflection host reports for the declaration.
ClassDeclarations ==
  [ dA     |-> [name |-> Identifier("A"), file |-> "a.js",
                decorators |-> DecoratorArray(<<"Component">>)],
    dB     |-> [name |-> Identifier("B"), file |-> "b.js",
                decorators |-> DecoratorArray(<<"Directive", "Injectable">>)],
    dC     |-> [name |-> Identifier("C"), file |-> "a.js",
                decorators |-> None],
    dE     |-> [name |-> Identifier("E"), file |-> "b.js",
                decorators |-> DecoratorArray(<<>>)],
    dAnon  |-> [name |-> None, file |-> "a.js",
                decorators |-> DecoratorArray(<<"Injectable">>)],
    dPlain |-> [name |-> None, file |-> "b.js",
                decorators |-> None] ]

\* Symbols: flags, alias target, value declaration.
Symbols ==
  [ sA       |-> [flags |-> {"Class"},    aliased |-> "",         valueDeclaration |-> "dA"],
    sB       |-> [flags |-> {"Class"},    aliased |-> "",         valueDeclaration |-> "dB"],
    sC       |-> [flags |-> {"Class"},    aliased |-> "",         valueDeclaration |-> "dC"],
    sE       |-> [flags |-> {"Class"},    aliased |-> "",         valueDeclaration |-> "dE"],
    sAnon    |-> [flags |-> {"Class"},    aliased |-> "",         valueDeclaration |-> "dAnon"],
    sPlain   |-> [flags |-> {"Class"},    aliased |-> "",         valueDeclaration |-> "dPlain"],
    sFn      |-> [flags |-> {"Function"}, aliased |-> "",         valueDeclaration |-> ""],
    sUnknown |-> [flags |-> {},           aliased |-> "",         valueDeclaration |-> ""],
    aA       |-> [flags |-> {"Alias"},    aliased |-> "sA",       valueDeclaration |-> ""],
    aB       |-> [flags |-> {"Alias"},    aliased |-> "sB",       valueDeclaration |-> ""],
    aE       |-> [flags |-> {"Alias"},    aliased |-> "sE",       valueDeclaration |-> ""],
    aFn      |-> [flags |-> {"Alias"},    aliased |-> "sFn",      valueDeclaration |-> ""],
    aBroken  |-> [flags |-> {"Alias"},    aliased |-> "sUnknown", valueDeclaration |-> ""] ]

\* Symbols a module can export (the unknown symbol is only what a broken alias resolves to).
ExportSymbols == DOMAIN Symbols \ {"sUnknown"}

\* checker.getAliasedSymbol
getAliasedSymbol(s) == Symbols[s].aliased

\* host.getDecoratorsOfDeclaration
getDecoratorsOfDeclaration(d) == ClassDeclarations[d].decorators

\* JavaScript truthiness of an object-or-undefined value: only undefined/null is falsy
Truthy(v) == v # None

(***************************************************************************)
(* Esm2015PackageParser.parseFile                                          *)
(***************************************************************************)

\* variant: re-exports are not followed
ResolveAliases_NotFollowed(exports) == exports

\* .map(exportSymbol => Alias & flags ? getAliasedSymbol(exportSymbol) : exportSymbol)
ResolveAliases(exports) ==
  [i \in 1..Len(exports) |->
     IF "Alias" \in Symbols[exports[i]].flags
     THEN getAliasedSymbol(exports[i])
     ELSE exports[i]]

IsClassSymbol(s) == "Class" \in Symbols[s].flags

\* .filter(exportSymbol => exportSymbol.flags & ts.SymbolFlags.Class)
ExportClasses(exports) == SelectSeq(ResolveAliases(exports), IsClassSymbol)

\* .map(exportSymbol => exportSymbol.valueDeclaration)
ClassDeclarationsOf(exports) ==
  [i \in 1..Len(ExportClasses(exports)) |->
     Symbols[ExportClasses(exports)[i]].valueDeclaration]

\* new ParsedClass(declaration.name!.text, declaration, decorators)
ParsedClass(d, decorators) ==
  [name |-> ClassDeclarations[d].name.text, declaration |-> d, decorators |-> decorators]

\* does the class survive `if (decorators)` followed by .filter(decoratedClass => decoratedClass)
KeepsClass(d) == Truthy(getDecoratorsOfDeclaration(d))

\* reading `.text` of declaration.name! throws a TypeError when the class has no name
ThrowsOnName(d) == KeepsClass(d) /\ ClassDeclarations[d].name = None

\* the map callback of lines 37-42 throws for some declaration
MapThrows(decls) == \E i \in 1..Len(decls) : ThrowsOnName(decls[i])

RECURSIVE DecoratedClasses(_, _)
\* the map/filter of lines 36-43 from position i on
DecoratedClasses(decls, i) ==
  IF i > Len(decls) THEN <<>>
  ELSE IF KeepsClass(decls[i])
       THEN <<ParsedClass(decls[i], getDecoratorsOfDeclaration(decls[i]))>>
            \o DecoratedClasses(decls, i + 1)
       ELSE DecoratedClasses(decls, i + 1)

\* index of the ParsedFile for `file` in the insertion-ordered map, 0 when absent
IndexOfFile(map, file) ==
  IF \E j \in 1..Len(map) : map[j].sourceFile = file
  THEN CHOOSE j \in 1..Len(map) : map[j].sourceFile = file
  ELSE 0

\* variant: the map.has(file) test is lost, every class opens a ParsedFile of its own
AddToMap_AlwaysNew(map, clazz) ==
  Append(map, [sourceFile |-> ClassDeclarations[clazz.declaration].file,
               decoratedClasses |-> <<clazz>>])

\* variant: a declaration already recorded for the file is not pushed again
AddToMap_Deduplicating(map, clazz) ==
  LET file == ClassDeclarations[clazz.declaration].file
      m2   == IF IndexOfFile(map, file) = 0
              THEN Append(map, [sourceFile |-> file, decoratedClasses |-> <<>>])
              ELSE map
      j    == IndexOfFile(m2, file)
  IN IF \E k \in 1..Len(m2[j].decoratedClasses) :
          m2[j].decoratedClasses[k].declaration = clazz.declaration
     THEN m2
     ELSE [m2 EXCEPT ![j].decoratedClasses = Append(@, clazz)]

\* the body of decoratedClasses.forEach: create the ParsedFile on first sight, then push
AddToMap(map, clazz) ==
  LET file == ClassDeclarations[clazz.declaration].file
      m2   == IF IndexOfFile(map, file) = 0
              THEN Append(map, [sourceFile |-> file, decoratedClasses |-> <<>>])
              ELSE map
      j    == IndexOfFile(m2, file)
  IN [m2 EXCEPT ![j].decoratedClasses = Append(@, clazz)]

RECURSIVE GroupByFile(_, _, _)
\* decoratedClasses.forEach(...) over an insertion-ordered Map, from position i on
GroupByFile(classes, i, map) ==
  IF i > Len(classes) THEN map
  ELSE GroupByFile(classes, i + 1, AddToMap(map, classes[i]))

\* The external services a parseFile invocation touches.
Invoked(moduleSymbol, exports) ==
  {"getSymbolAtLocation"}
  \cup (IF moduleSymbol THEN {"getExportsOfModule"} ELSE {})
  \cup (IF moduleSymbol /\ \E i \in 1..Len(exports) : "Alias" \in Symbols[exports[i]].flags
        THEN {"getAliasedSymbol"} ELSE {})
  \cup (IF moduleSymbol /\ Len(ClassDeclarationsOf(exports)) > 0
        THEN {"getDecoratorsOfDeclaration"} ELSE {})

\* variant: the `if (moduleSymbol)` guard is lost
parseFile_Unguarded(moduleSymbol, exports) ==
  IF MapThrows(ClassDeclarationsOf(exports))
  THEN [status |-> "threw", value |-> <<>>, invoked |-> Invoked(TRUE, exports)]
  ELSE [status |-> "returned",
        value |-> GroupByFile(DecoratedClasses(ClassDeclarationsOf(exports), 1), 1, <<>>),
        invoked |-> Invoked(TRUE, exports)]

\* parseFile(entryPoint): moduleSymbol says whether getSymbolAtLocation(entryPoint)
\* resolves, exports is what getExportsOfModule returns for it.
parseFile(moduleSymbol, exports) ==
  IF moduleSymbol /\ MapThrows(ClassDeclarationsOf(exports))
  THEN [status |-> "threw", value |-> <<>>, invoked |-> Invoked(moduleSymbol, exports)]
  ELSE [status |-> "returned",
        value |-> IF moduleSymbol
                  THEN GroupByFile(DecoratedClasses(ClassDeclarationsOf(exports), 1), 1, <<>>)
                  ELSE <<>>,
        invoked |-> Invoked(moduleSymbol, exports)]

\* Calls of parseFile explored.
ParseFileCalls ==
  {[op |-> "parseFile", moduleSymbol |-> m, exports |-> e] :
     m \in BOOLEAN, e \in SeqsUpTo(ExportSymbols, MaxExports)}

(***************************************************************************)
(* The syntax tree seen by Esm5ReflectionHost.                             *)
(***************************************************************************)

Block(statements) == [kind |-> "Block", statements |-> statements]
FunctionExpression(body) == [kind |-> "FunctionExpression", body |-> body]
ArrowFunction(body) == [kind |-> "ArrowFunction", body |-> body]
CallExpression(expression) == [kind |-> "CallExpression", expression |-> expression]
ParenthesizedExpression(expression) ==
  [kind |-> "ParenthesizedExpression", expression |-> expression]
ArrayLiteralExpression(elements) ==
  [kind |-> "ArrayLiteralExpression", elements |-> elements]
ReturnStatement(expression) == [kind |-> "ReturnStatement", expression |-> expression]
PropertyAssignment(name, initializer) ==
  [kind |-> "PropertyAssignment", name |-> name, initializer |-> initializer]
ObjectLiteralExpression(properties) ==
  [kind |-> "ObjectLiteralExpression", properties |-> properties]

\* function Foo() {}
FunctionDeclarationStatement == [kind |-> "FunctionDeclaration", name |-> Identifier("Foo")]
\* Foo.decorators = [ ... ];
ExpressionStatement == [kind |-> "ExpressionStatement"]
\* if (x) { return Foo; }   -- a return that is not a top-level statement of the body
IfStatement ==
  [kind |-> "IfStatement", thenStatement |-> ReturnStatement(Identifier("Foo"))]

\* What the type checker binds the identifiers used inside the IIFE to.
InnerFoo == [kind |-> "Symbol", name |-> "Foo", declaredBy |-> "FunctionDeclaration"]
OuterFoo == [kind |-> "Symbol", name |-> "Foo", declaredBy |-> "VariableDeclaration"]
InnerBar == [kind |-> "Symbol", name |-> "Bar", declaredBy |-> "FunctionDeclaration"]

\* checker.getSymbolAtLocation for an identifier inside the IIFE body
getSymbolAtLocation(identifier) ==
  IF identifier.text = "Foo" THEN InnerFoo
  ELSE IF identifier.text = "Bar" THEN InnerBar
  ELSE None

\* function getReturnStatement(body): body.statements.find(isReturnStatement)
RECURSIVE FindReturn(_, _)
FindReturn(statements, i) ==
  IF i > Len(statements) THEN None
  ELSE IF statements[i].kind = "ReturnStatement" THEN statements[i]
  ELSE FindReturn(statements, i + 1)

\* variant: the last return statement of the body instead of the first
getReturnStatement_Last(body) ==
  IF \E i \in 1..Len(body.statements) : body.statements[i].kind = "ReturnStatement"
  THEN body.statements[CHOOSE i \in 1..Len(body.statements) :
         /\ body.statements[i].kind = "ReturnStatement"
         /\ \A j \in (i + 1)..Len(body.statements) :
              body.statements[j].kind # "ReturnStatement"]
  ELSE None

getReturnStatement(body) == FindReturn(body.statements, 1)

\* function getReturnIdentifier(body)
getReturnIdentifier(body) ==
  LET returnStatement == getReturnStatement(body)
  IN IF /\ Truthy(returnStatement)
        /\ Truthy(returnStatement.expression)
        /\ returnStatement.expression.kind = "Identifier"
     THEN returnStatement.expression
     ELSE None

\* function getIifeBody(declaration)
getIifeBody(declaration) ==
  IF /\ Truthy(declaration.initializer)
     /\ declaration.initializer.kind = "ParenthesizedExpression"
  THEN LET iifeCall == declaration.initializer
       IN IF /\ iifeCall.expression.kind = "CallExpression"
             /\ iifeCall.expression.expression.kind = "FunctionExpression"
          THEN iifeCall.expression.expression.body
          ELSE None
  ELSE None

\* Esm5ReflectionHost.getClassSymbol(declaration)
getClassSymbol(declaration) ==
  IF declaration.kind = "VariableDeclaration"
  THEN LET iifeBody == getIifeBody(declaration)
       IN IF Truthy(iifeBody)
          THEN LET innerClassIdentifier == getReturnIdentifier(iifeBody)
               IN IF Truthy(innerClassIdentifier)
                  THEN getSymbolAtLocation(innerClassIdentifier)
                  ELSE None
          ELSE None
  ELSE None

\* Esm5ReflectionHost.getConstructorParameterDeclarations(classSymbol)
getConstructorParameterDeclarations(classSymbol) ==
  LET constructor == classSymbol.valueDeclaration
  IN IF Truthy(constructor) /\ Truthy(constructor.parameters)
     THEN constructor.parameters.elements
     ELSE <<>>

\* name of the static property holding the constructor parameter decorators
CONSTRUCTOR_PARAMS == "ctorParameters"

\* getPropertyValueFromSymbol(propSymbol): the expression assigned to the static property
getPropertyValueFromSymbol(propSymbol) == propSymbol.value

\* reflectObjectLiteral(node): the name -> expression map of the literal's property assignments
reflectObjectLiteral(node) ==
  [kind |-> "Map",
   entries |-> {<<node.properties[i].name, node.properties[i].initializer>> :
                  i \in {j \in 1..Len(node.properties) :
                           node.properties[j].kind = "PropertyAssignment"}}]

\* element => ts.isObjectLiteralExpression(element) ? reflectObjectLiteral(element) : null
ReflectElement(element) ==
  IF element.kind = "ObjectLiteralExpression" THEN reflectObjectLiteral(element) ELSE None

\* variant: elements that are not object literals are dropped instead of mapped to null
getConstructorDecorators_Dropping(classSymbol) ==
  IF /\ Truthy(classSymbol.exports)
     /\ CONSTRUCTOR_PARAMS \in DOMAIN classSymbol.exports.entries
  THEN LET paramDecoratorsProperty ==
             getPropertyValueFromSymbol(classSymbol.exports.entries[CONSTRUCTOR_PARAMS])
       IN IF /\ Truthy(paramDecoratorsProperty)
             /\ paramDecoratorsProperty.kind = "FunctionExpression"
          THEN LET returnStatement == getReturnStatement(paramDecoratorsProperty.body)
                   IsObjectLiteral(e) == e.kind = "ObjectLiteralExpression"
               IN IF /\ Truthy(returnStatement)
                     /\ Truthy(returnStatement.expression)
                     /\ returnStatement.expression.kind = "ArrayLiteralExpression"
                  THEN LET kept == SelectSeq(returnStatement.expression.elements,
                                             IsObjectLiteral)
                       IN [i \in 1..Len(kept) |-> reflectObjectLiteral(kept[i])]
                  ELSE <<>>
          ELSE <<>>
  ELSE <<>>

\* variant: an arrow function is accepted like a function expression
getConstructorDecorators_AnyFunction(classSymbol) ==
  IF /\ Truthy(classSymbol.exports)
     /\ CONSTRUCTOR_PARAMS \in DOMAIN classSymbol.exports.entries
  THEN LET paramDecoratorsProperty ==
             getPropertyValueFromSymbol(classSymbol.exports.entries[CONSTRUCTOR_PARAMS])
       IN IF /\ Truthy(paramDecoratorsProperty)
             /\ paramDecoratorsProperty.kind \in {"FunctionExpression", "ArrowFunction"}
          THEN LET returnStatement == getReturnStatement(paramDecoratorsProperty.body)
               IN IF /\ Truthy(returnStatement)
                     /\ Truthy(returnStatement.expression)
                     /\ returnStatement.expression.kind = "ArrayLiteralExpression"
                  THEN [i \in 1..Len(returnStatement.expression.elements) |->
                          ReflectElement(returnStatement.expression.elements[i])]
                  ELSE <<>>
          ELSE <<>>
  ELSE <<>>

\* Esm5ReflectionHost.getConstructorDecorators(classSymbol)
getConstructorDecorators(classSymbol) ==
  IF /\ Truthy(classSymbol.exports)
     /\ CONSTRUCTOR_PARAMS \in DOMAIN classSymbol.exports.entries
  THEN LET paramDecoratorsProperty ==
             getPropertyValueFromSymbol(classSymbol.exports.entries[CONSTRUCTOR_PARAMS])
       IN IF /\ Truthy(paramDecoratorsProperty)
             /\ paramDecoratorsProperty.kind = "FunctionExpression"
          THEN LET returnStatement == getReturnStatement(paramDecoratorsProperty.body)
               IN IF /\ Truthy(returnStatement)
                     /\ Truthy(returnStatement.expression)
                     /\ returnStatement.expression.kind = "ArrayLiteralExpression"
                  THEN [i \in 1..Len(returnStatement.expression.elements) |->
                          ReflectElement(returnStatement.expression.elements[i])]
                  ELSE <<>>
          ELSE <<>>
  ELSE <<>>

(***************************************************************************)
(* Inputs explored for the reflection host.                                *)
(***************************************************************************)

\* a call that is not an identifier:  return Foo();
NonIdentifier == CallExpression(Identifier("Foo"))

\* Top-level statements of an IIFE body.
IifeStatements ==
  { FunctionDeclarationStatement, ExpressionStatement, IfStatement,
    ReturnStatement(None), ReturnStatement(Identifier("Foo")),
    ReturnStatement(Identifier("Bar")), ReturnStatement(NonIdentifier) }

IifeBodies == {Block(b) : b \in SeqsUpTo(IifeStatements, MaxStatements)}

\* Initializers of a declaration, for the body of the function inside.
Initializers(body) ==
  { ParenthesizedExpression(CallExpression(FunctionExpression(body))),  \* (function(){..}())
    CallExpression(ParenthesizedExpression(FunctionExpression(body))),  \* (function(){..})()
    ParenthesizedExpression(CallExpression(ArrowFunction(body))),       \* ((() => {..})())
    ParenthesizedExpression(FunctionExpression(body)),                  \* (function(){..})
    FunctionExpression(body) }                                          \* function(){..}

Declarations ==
  {[kind |-> "VariableDeclaration", name |-> Identifier("Foo"), initializer |-> i] :
     i \in {None, Identifier("Foo")} \cup UNION {Initializers(b) : b \in IifeBodies}}
  \cup
  {[kind |-> k, name |-> Identifier("Foo"), initializer |-> i] :
     k \in {"PropertyDeclaration", "Parameter"},
     i \in {None} \cup Initializers(Block(<<FunctionDeclarationStatement,
                                             ReturnStatement(Identifier("Foo"))>>))}

GetClassSymbolCalls == {[op |-> "getClassSymbol", declaration |-> d] : d \in Declarations}

\* Elements of the array returned by ctorParameters.
\* { type: Bar }
TypeOnly == ObjectLiteralExpression(<<PropertyAssignment("type", "Bar")>>)
\* { type: undefined, decorators: [{ type: Inject, args: [TOKEN] }] }
WithInject ==
  ObjectLiteralExpression(<<PropertyAssignment("type", "undefined"),
                            PropertyAssignment("decorators", "[{type: Inject, args: [TOKEN]}]")>>)
NullKeyword == [kind |-> "NullKeyword"]

ArrayElements == {TypeOnly, WithInject, NullKeyword, Identifier("x")}

ArrayLiterals == {ArrayLiteralExpression(e) : e \in SeqsUpTo(ArrayElements, MaxElements)}

SampleArray == ArrayLiteralExpression(<<TypeOnly, WithInject>>)

\* Top-level statements of the ctorParameters function.
CtorStatements ==
  { ExpressionStatement, IfStatement, ReturnStatement(None),
    ReturnStatement(Identifier("x")), ReturnStatement(SampleArray) }

CtorBodies ==
  {Block(b) : b \in SeqsUpTo(CtorStatements, MaxStatements)}
  \cup UNION {{ Block(<<ReturnStatement(a)>>),
                Block(<<ExpressionStatement, ReturnStatement(a)>>),
                Block(<<ReturnStatement(a), ReturnStatement(SampleArray)>>),
                Block(<<ReturnStatement(None), ReturnStatement(a)>>) } : a \in ArrayLiterals}

\* Values the ctorParameters static property can be assigned.
PropertyValues ==
  {None, Identifier("x"), SampleArray}
  \cup {FunctionExpression(b) : b \in CtorBodies}
  \cup {ArrowFunction(b) : b \in CtorBodies}

PropertySymbol(value) == [kind |-> "Symbol", value |-> value]

SymbolTable(entries) == [kind |-> "SymbolTable", entries |-> entries]

ClassSymbol(valueDeclaration, exports) ==
  [kind |-> "Symbol", valueDeclaration |-> valueDeclaration, exports |-> exports]

ClassSymbolsForDecorators ==
  { ClassSymbol(None, None),
    ClassSymbol(None, SymbolTable([decorators |-> PropertySymbol(SampleArray)])) }
  \cup {ClassSymbol(None, SymbolTable([ctorParameters |-> PropertySymbol(v)])) :
          v \in PropertyValues}
  \cup {ClassSymbol(None, SymbolTable([decorators |-> PropertySymbol(SampleArray),
                                       ctorParameters |-> PropertySymbol(v)])) :
          v \in {None, FunctionExpression(Block(<<ReturnStatement(SampleArray)>>)),
                 ArrowFunction(Block(<<ReturnStatement(SampleArray)>>))}}

GetConstructorDecoratorsCalls ==
  {[op |-> "getConstructorDecorators", classSymbol |-> c] : c \in ClassSymbolsForDecorators}

Parameter(name) == [kind |-> "Parameter", name |-> name]

NodeArray(elements) == [kind |-> "NodeArray", elements |-> elements]

\* The value declaration of the symbol getClassSymbol found: the inner function.
ConstructorFunctions ==
  {None, [kind |-> "FunctionDeclaration", parameters |-> None]}
  \cup {[kind |-> "FunctionDeclaration", parameters |-> NodeArray(ps)] :
          ps \in SeqsUpTo({Parameter("p1"), Parameter("p2")}, MaxParameters)}

GetConstructorParameterDeclarationsCalls ==
  {[op |-> "getConstructorParameterDeclarations", classSymbol |-> ClassSymbol(f, None)] :
     f \in ConstructorFunctions}

(***************************************************************************)
(* One invocation.                                                         *)
(***************************************************************************)

NotCalled == [status |-> "pending"]

ReturnedValue(v) == [status |-> "returned", value |-> v]

Calls ==
  ParseFileCalls \cup GetClassSymbolCalls \cup GetConstructorDecoratorsCalls
  \cup GetConstructorParameterDeclarationsCalls

Init == call \in Calls /\ out = NotCalled

ParseFile ==
  /\ call.op = "parseFile"
  /\ out = NotCalled
  /\ out' = parseFile(call.moduleSymbol, call.exports)
  /\ UNCHANGED call

GetClassSymbol ==
  /\ call.op = "getClassSymbol"
  /\ out = NotCalled
  /\ out' = ReturnedValue(getClassSymbol(call.declaration))
  /\ UNCHANGED call

GetConstructorParameterDeclarations ==
  /\ call.op = "getConstructorParameterDeclarations"
  /\ out = NotCalled
  /\ out' = ReturnedValue(getConstructorParameterDeclarations(call.classSymbol))
  /\ UNCHANGED call

GetConstructorDecorators ==
  /\ call.op = "getConstructorDecorators"
  /\ out = NotCalled
  /\ out' = ReturnedValue(getConstructorDecorators(call.classSymbol))
  /\ UNCHANGED call

Next ==
  \/ ParseFile
  \/ GetClassSymbol
  \/ GetConstructorParameterDeclarations
  \/ GetConstructorDecorators

Spec == Init /\ [][Next]_vars

Called == out # NotCalled

Returned == Called /\ out.status = "returned"

ParseCalled == call.op = "parseFile" /\ Called

ParseReturned == call.op = "parseFile" /\ Returned

(***************************************************************************)
(* parseFile: what the properties refer to, read off the symbol table.     *)
(***************************************************************************)

\* the symbol export i stands for once a re-export is followed
ExportTarget(i) ==
  IF "Alias" \in Symbols[call.exports[i]].flags
  THEN Symbols[call.exports[i]].aliased
  ELSE call.exports[i]

ExportIsClass(i) == "Class" \in Symbols[ExportTarget(i)].flags

ExportDeclaration(i) == Symbols[ExportTarget(i)].valueDeclaration

\* export i is a class for which the host reported something (not undefined/null)
ExportSurvives(i) ==
  ExportIsClass(i) /\ ClassDeclarations[ExportDeclaration(i)].decorators # None

SurvivingPositions ==
  IF call.moduleSymbol THEN {i \in 1..Len(call.exports) : ExportSurvives(i)} ELSE {}

FileOf(d) == ClassDeclarations[d].file

PositionsIn(file) == {i \in SurvivingPositions : FileOf(ExportDeclaration(i)) = file}

Minimum(S) == CHOOSE x \in S : \A y \in S : x <= y

\* the k-th smallest element of a set of positions
Nth(S, k) == CHOOSE x \in S : Cardinality({y \in S : y <= x}) = k

\* every <<file index, class index>> of a parseFile result
Entries(files) ==
  {e \in (1..Len(files)) \X (1..Len(call.exports)) :
     e[2] <= Len(files[e[1]].decoratedClasses)}

\* C1: parseFile never raises; whatever the exports and the host results, it returns.
C1_ParseFileNeverRaises == ParseCalled => out.status = "returned"

\* C2: every ParsedClass of every returned ParsedFile carries at least one
\* decorator; a class for which the host reports nothing or an empty sequence
\* gets no ParsedClass.
C2_OnlyDecoratedClasses ==
  ParseReturned =>
    \A e \in Entries(out.value) :
      Len(out.value[e[1]].decoratedClasses[e[2]].decorators.elements) >= 1

DirectExports == [i \in 1..Len(call.exports) |-> ExportTarget(i)]

\* C7: exporting a class through an alias gives the same ParsedClass (name,
\* declaration, decorators) in the same ParsedFile as exporting it directly; the
\* alias symbol is never taken for the class.
C7_AliasResolution ==
  ParseCalled =>
    /\ out.status = parseFile(call.moduleSymbol, DirectExports).status
    /\ out.value = parseFile(call.moduleSymbol, DirectExports).value
    /\ Returned =>
         \A i \in SurvivingPositions :
           \E e \in Entries(out.value) :
             /\ out.value[e[1]].sourceFile = FileOf(ExportDeclaration(i))
             /\ out.value[e[1]].decoratedClasses[e[2]] =
                  [name |-> ClassDeclarations[ExportDeclaration(i)].name.text,
                   declaration |-> ExportDeclaration(i),
                   decorators |-> ClassDeclarations[ExportDeclaration(i)].decorators]

\* class A is exported only through its alias and is found
C7_Witness ==
  /\ ParseReturned
  /\ \E i \in 1..Len(call.exports) : call.exports[i] = "aA"
  /\ \A i \in 1..Len(call.exports) : call.exports[i] # "sA"
  /\ \E e \in Entries(out.value) :
       out.value[e[1]].decoratedClasses[e[2]].declaration = "dA"

\* C8: parseFile returns the empty sequence when the module symbol does not
\* resolve, and when no export is a class after alias resolution; in the first
\* case neither getExportsOfModule nor the reflection host is called.
C8_EmptyResult ==
  ParseCalled =>
    /\ ~call.moduleSymbol =>
         /\ out.status = "returned"
         /\ out.value = <<>>
         /\ out.invoked \cap {"getExportsOfModule", "getAliasedSymbol",
                              "getDecoratorsOfDeclaration"} = {}
    /\ (\A i \in 1..Len(call.exports) : ~ExportIsClass(i)) =>
         /\ out.status = "returned"
         /\ out.value = <<>>

\* an unresolvable entry module whose exports would have held a decorated class
C8_Witness ==
  /\ ParseReturned
  /\ ~call.moduleSymbol
  /\ \E i \in 1..Len(call.exports) : call.exports[i] = "sA"
  /\ out.value = <<>>

\* C10: no de-duplication; there are as many ParsedClass entries as exports that
\* survive the class and decorator filters, a class reached through k exports
\* appears k times, and its ParsedFile exists once.
C10_NoDeduplication ==
  ParseReturned =>
    /\ Cardinality(Entries(out.value)) = Cardinality(SurvivingPositions)
    /\ \A d \in DOMAIN ClassDeclarations :
         Cardinality({e \in Entries(out.value) :
                        out.value[e[1]].decoratedClasses[e[2]].declaration = d})
           = Cardinality({i \in SurvivingPositions : ExportDeclaration(i) = d})
    /\ \A d \in DOMAIN ClassDeclarations :
         Cardinality({i \in 1..Len(out.value) : out.value[i].sourceFile = FileOf(d)}) <= 1

\* class A exported directly and again under an alias: two entries, one ParsedFile
C10_Witness ==
  /\ ParseReturned
  /\ \E i, j \in 1..Len(call.exports) : call.exports[i] = "sA" /\ call.exports[j] = "aA"
  /\ Cardinality({e \in Entries(out.value) :
                    out.value[e[1]].decoratedClasses[e[2]].declaration = "dA"}) >= 2
  /\ Cardinality({i \in 1..Len(out.value) : out.value[i].sourceFile = "a.js"}) = 1

(***************************************************************************)
(* Esm5ReflectionHost: what the properties refer to, read off the tree.    *)
(***************************************************************************)

\* position of the first top-level return statement, 0 when there is none
FirstReturnIndex(statements) ==
  IF \E i \in 1..Len(statements) : statements[i].kind = "ReturnStatement"
  THEN Minimum({i \in 1..Len(statements) : statements[i].kind = "ReturnStatement"})
  ELSE 0

\* initializer written  (function(){ ... }())  -- the call inside the parentheses
IsParenthesizedCall(node) ==
  /\ node.kind = "ParenthesizedExpression"
  /\ node.expression.kind = "CallExpression"
  /\ node.expression.expression.kind = "FunctionExpression"

\* initializer written  (function(){ ... })()  -- the call outside the parentheses
IsCallOfParenthesized(node) ==
  /\ node.kind = "CallExpression"
  /\ node.expression.kind = "ParenthesizedExpression"
  /\ node.expression.expression.kind = "FunctionExpression"

\* the statements of the function an IIFE of either form invokes
IifeStatementsOf(node) == node.expression.expression.body.statements

\* the body starts with `function Foo() {}` and its first top-level return is `return Foo;`
ReturnsInnerFoo(statements) ==
  /\ Len(statements) >= 2
  /\ statements[1] = FunctionDeclarationStatement
  /\ FirstReturnIndex(statements) > 0
  /\ statements[FirstReturnIndex(statements)].expression = Identifier("Foo")

GetClassSymbolCalled == call.op = "getClassSymbol" /\ Called

\* C3: for  var Foo = (function(){ function Foo(){} ...; return Foo; })()  -- a
\* call whose callee is the parenthesized function expression -- getClassSymbol
\* returns the symbol of the inner function Foo.
C3_IifeUnwrap ==
  ( /\ GetClassSymbolCalled
    /\ call.declaration.kind = "VariableDeclaration"
    /\ IsCallOfParenthesized(call.declaration.initializer)
    /\ ReturnsInnerFoo(IifeStatementsOf(call.declaration.initializer)) )
  => out.value = InnerFoo

\* C9: getClassSymbol returns none for a declaration that is not a variable
\* declaration, has no initializer, is not initialized with an IIFE, whose
\* function has no top-level return, or whose first top-level return has no
\* expression or returns something that is not an identifier; a symbol it does
\* return is the one the first return's identifier is bound to.
C9_GetClassSymbolFailsClosed ==
  GetClassSymbolCalled =>
    LET d == call.declaration
        isIife == IsParenthesizedCall(d.initializer) \/ IsCallOfParenthesized(d.initializer)
        stmts == IifeStatementsOf(d.initializer)
        first == FirstReturnIndex(stmts)
    IN /\ out.status = "returned"
       /\ d.kind # "VariableDeclaration" => out.value = None
       /\ d.initializer = None => out.value = None
       /\ ~isIife => out.value = None
       /\ (isIife /\ first = 0) => out.value = None
       /\ (isIife /\ first > 0 /\ stmts[first].expression.kind # "Identifier")
            => out.value = None
       /\ out.value # None =>
            /\ out.value = getSymbolAtLocation(stmts[first].expression)
            /\ out.value # OuterFoo

\* (function(){ return Foo(); return Foo; }()) : the later `return Foo;` is not consulted
C9_Witness ==
  /\ GetClassSymbolCalled
  /\ call.declaration.kind = "VariableDeclaration"
  /\ IsParenthesizedCall(call.declaration.initializer)
  /\ IifeStatementsOf(call.declaration.initializer)
       = <<ReturnStatement(NonIdentifier), ReturnStatement(Identifier("Foo"))>>
  /\ out.value = None

GetConstructorDecoratorsCalled == call.op = "getConstructorDecorators" /\ Called

\* the class has a ctorParameters static property
HasCtorParameters ==
  /\ call.classSymbol.exports # None
  /\ "ctorParameters" \in DOMAIN call.classSymbol.exports.entries

CtorParametersValue == call.classSymbol.exports.entries["ctorParameters"].value

\* ctorParameters is a function expression whose first return statement returns an array literal
WellFormedCtorParameters ==
  /\ HasCtorParameters
  /\ CtorParametersValue.kind = "FunctionExpression"
  /\ FirstReturnIndex(CtorParametersValue.body.statements) > 0
  /\ CtorParametersValue.body.statements[
       FirstReturnIndex(CtorParametersValue.body.statements)].expression.kind
       = "ArrayLiteralExpression"

ReturnedElements ==
  CtorParametersValue.body.statements[
    FirstReturnIndex(CtorParametersValue.body.statements)].expression.elements

\* C4: when ctorParameters is a function expression whose first return returns an
\* array literal of n elements, getConstructorDecorators returns n entries, entry
\* i being the reflection of element i if that is an object literal, none otherwise.
C4_PositionallyAligned ==
  (GetConstructorDecoratorsCalled /\ WellFormedCtorParameters) =>
    /\ out.status = "returned"
    /\ Len(out.value) = Len(ReturnedElements)
    /\ \A i \in 1..Len(ReturnedElements) :
         IF ReturnedElements[i].kind = "ObjectLiteralExpression"
         THEN out.value[i] = reflectObjectLiteral(ReturnedElements[i])
         ELSE out.value[i] = None

\* return [null, {type: Bar}, {type: undefined, decorators: [...]}] : three entries, the
\* first none, the third carrying the decorators of the third element
C4_Witness ==
  /\ GetConstructorDecoratorsCalled
  /\ WellFormedCtorParameters
  /\ ReturnedElements = <<NullKeyword, TypeOnly, WithInject>>
  /\ Len(out.value) = 3
  /\ out.value[1] = None
  /\ out.value[2].entries = {<<"type", "Bar">>}
  /\ <<"decorators", "[{type: Inject, args: [TOKEN]}]">> \in out.value[3].entries

\* C5: getConstructorDecorators returns the empty sequence, without raising, when
\* there is no ctorParameters property, its value is absent or not a function
\* expression, the function has no return statement, or its first return has no
\* expression or returns something that is not an array literal.
C5_MalformedIsEmpty ==
  GetConstructorDecoratorsCalled =>
    /\ out.status = "returned"
    /\ ~HasCtorParameters => out.value = <<>>
    /\ (HasCtorParameters /\ CtorParametersValue.kind # "FunctionExpression")
         => out.value = <<>>
    /\ ( /\ HasCtorParameters
         /\ CtorParametersValue.kind = "FunctionExpression"
         /\ FirstReturnIndex(CtorParametersValue.body.statements) = 0 )
         => out.value = <<>>
    /\ ( /\ HasCtorParameters
         /\ CtorParametersValue.kind = "FunctionExpression"
         /\ FirstReturnIndex(CtorParametersValue.body.statements) > 0
         /\ CtorParametersValue.body.statements[
              FirstReturnIndex(CtorParametersValue.body.statements)].expression.kind
              # "ArrayLiteralExpression" )
         => out.value = <<>>

\* ctorParameters = () => { return [{type: Bar}, {...}]; } : an arrow function, so empty
C5_Witness ==
  /\ GetConstructorDecoratorsCalled
  /\ HasCtorParameters
  /\ CtorParametersValue = ArrowFunction(Block(<<ReturnStatement(SampleArray)>>))
  /\ out = ReturnedValue(<<>>)

====
